---------------------------- MODULE Spec2Model ----------------------------
(***************************************************************************)
(* A model of xyz2sgf.js: the conversion of .gib, .ngf and .ugf/.ugi game  *)
(* records into an SGF property tree and its serialisation.                *)
(*                                                                         *)
(* Text is modelled at the level of characters: a string is a sequence of  *)
(* one-character strings, so that parseInt, split, trim, slice and the     *)
(* regular expressions of the source are computed, not assumed.  A JS      *)
(* number is a record: Num(n), NaN or Null.  Fractions (komi) are kept in  *)
(* tenths.                                                                 *)
(***************************************************************************)
EXTENDS Integers, Sequences, FiniteSets, TLC

VARIABLES
    pc,         \* control location of the running entry point
    ext,        \* the format tag handed to parse ("" when none)
    text,       \* the contents being parsed: a sequence of indices into the line vocabulary
    idx,        \* number of lines of text the parser's loop has consumed
    nodes,      \* the arena of Node objects; handle 1 is the root
    node,       \* the parser's local `node` (a handle)
    loc,        \* the parser's other locals (boardsize, handicap, ...)
    err,        \* the exception in flight or recorded: "none", "ParserFail", ...
    out,        \* the chunks written to the write stream, in order
    argv,       \* main: number of file names on the command line
    fi,         \* main: index of the file being converted (0 before the loop)
    log,        \* main: the lines written by console.log, in order
    saved,      \* main: the output files saveFile has written, [file, name]
    hp          \* the arguments and the result of a handicapPoints call

vars == <<pc, ext, text, idx, nodes, node, loc, err, out, argv, fi, log, saved, hp>>

---------------------------------------------------------------------------
(* Bounds of the model.                                                    *)

\* longest text, in lines, handed to parseGib; for parseNgf and parseUgf,
\* most lines that follow the header lines
MaxLines == 3
\* most file names on the command line
MaxFiles == 2
\* most nodes of a tree built by the Node operations directly
MaxNodes == 4
\* most property mutations applied to such a tree
MaxOps == 2
\* largest board size and handicap handed to handicapPoints directly
MaxBoard == 25
MaxHandicapArg == 10

---------------------------------------------------------------------------
(* Characters and strings.                                                 *)

Ascii ==
    <<
       " ", "!", "\"", "#", "$", "%", "&", "'", "(", ")", "*", "+", ",", "-", ".", "/",
       "0", "1", "2", "3", "4", "5", "6", "7", "8", "9", ":", ";", "<", "=", ">", "?",
       "@", "A", "B", "C", "D", "E", "F", "G", "H", "I", "J", "K", "L", "M", "N", "O",
       "P", "Q", "R", "S", "T", "U", "V", "W", "X", "Y", "Z", "[", "\\", "]", "^", "_",
       "grave", "a", "b", "c", "d", "e", "f", "g", "h", "i", "j", "k", "l", "m", "n", "o",
       "p", "q", "r", "s", "t", "u", "v", "w", "x", "y", "z", "{", "|", "}", "~"
    >>

\* String.prototype.charCodeAt for the printable ASCII characters (code 96, the
\* grave accent, cannot be written in a string of this language and is named)
CharCode(c) == 31 + (CHOOSE i \in DOMAIN Ascii : Ascii[i] = c)

\* String.fromCharCode for codes 32..126
FromCharCode(n) == Ascii[n - 31]

IsDigit(c) == c \in {"0", "1", "2", "3", "4", "5", "6", "7", "8", "9"}

DigitVal(c) == CharCode(c) - 48

IsSpace(c) == c \in {" ", "\t", "\r"}

\* toUpperCase / toLowerCase of one character
UpperChar(c) ==
    IF c \in {Ascii[i] : i \in 66..91} THEN FromCharCode(CharCode(c) - 32) ELSE c

LowerChar(c) ==
    IF c \in {Ascii[i] : i \in 34..59} THEN FromCharCode(CharCode(c) + 32) ELSE c

ToUpperCase(s) == [i \in DOMAIN s |-> UpperChar(s[i])]

ToLowerCase(s) == [i \in DOMAIN s |-> LowerChar(s[i])]

\* s.slice(from) with a 0-based start, as in JavaScript
SliceFrom(s, from) == SubSeq(s, from + 1, Len(s))

\* s.slice(from, to) with 0-based, end-exclusive, non-negative bounds
Slice(s, from, to) == SubSeq(s, from + 1, IF to > Len(s) THEN Len(s) ELSE to)

\* s.charAt(i), 0-based: the empty string past the end
CharAt(s, i) == IF i + 1 \in DOMAIN s THEN <<s[i + 1]>> ELSE <<>>

StartsWith(s, p) == Len(s) >= Len(p) /\ SubSeq(s, 1, Len(p)) = p

EndsWith(s, p) == Len(s) >= Len(p) /\ SubSeq(s, Len(s) - Len(p) + 1, Len(s)) = p

\* p occurs in s at the 1-based position i
OccursAt(s, p, i) == i + Len(p) - 1 <= Len(s) /\ SubSeq(s, i, i + Len(p) - 1) = p

\* /p/.test(s) for a literal pattern p
Includes(s, p) == \E i \in 1..(Len(s) + 1) : OccursAt(s, p, i)

\* String.prototype.trim
Trim(s) ==
    LET keep == {i \in DOMAIN s : ~IsSpace(s[i])}
    IN  IF keep = {} THEN <<>>
        ELSE SubSeq(s, CHOOSE i \in keep : \A j \in keep : i <= j,
                       CHOOSE i \in keep : \A j \in keep : j <= i)

\* s.split(c) for a one-character separator c: the pieces, in order
RECURSIVE Split(_, _)
Split(s, c) ==
    LET at == {i \in DOMAIN s : s[i] = c}
    IN  IF at = {} THEN <<s>>
        ELSE LET i == CHOOSE k \in at : \A j \in at : k <= j
             IN  <<SubSeq(s, 1, i - 1)>> \o Split(SubSeq(s, i + 1, Len(s)), c)

\* s.split(/\s+/) of a trimmed string: its whitespace-separated tokens
\* (of the empty string: one empty token, as in JavaScript)
RECURSIVE SplitWs(_)
SplitWs(s) ==
    LET at == {i \in DOMAIN s : IsSpace(s[i])}
    IN  IF at = {} THEN <<s>>
        ELSE LET i == CHOOSE k \in at : \A j \in at : k <= j
                 rest == SubSeq(s, i + 1, Len(s))
                 ns == {k \in DOMAIN rest : ~IsSpace(rest[k])}
                 j == CHOOSE k \in ns : \A m \in ns : k <= m
             IN  <<SubSeq(s, 1, i - 1)>> \o SplitWs(SubSeq(rest, j, Len(rest)))

\* element i (0-based) of an array, or Undefined
Undefined == <<"undefined">>

At(arr, i) == IF i + 1 \in DOMAIN arr THEN arr[i + 1] ELSE Undefined

\* JavaScript truthiness of a string or undefined
Truthy(s) == s # Undefined /\ s # <<>>

---------------------------------------------------------------------------
(* JavaScript numbers.                                                     *)

Num(n) == [t |-> "num", v |-> n]

NaN == [t |-> "nan"]

Null == [t |-> "null"]

IsNum(a) == a.t = "num"

\* a < n, a > n, a >= n for a JS value a (a number, NaN or null) and an
\* integer n: false when a is NaN; null converts to 0
NumVal(a) == IF a.t = "null" THEN 0 ELSE a.v

Lt(a, n) == a.t # "nan" /\ NumVal(a) < n

Gt(a, n) == a.t # "nan" /\ NumVal(a) > n

Ge(a, n) == a.t # "nan" /\ NumVal(a) >= n

\* the value of a non-empty run of decimal digits
RECURSIVE DigitsVal(_)
DigitsVal(ds) ==
    IF ds = <<>> THEN 0
    ELSE 10 * DigitsVal(SubSeq(ds, 1, Len(ds) - 1)) + DigitVal(ds[Len(ds)])

\* the longest prefix of s made of digits
DigitRun(s) ==
    LET stop == {i \in DOMAIN s : ~IsDigit(s[i])}
    IN  IF stop = {} THEN s
        ELSE SubSeq(s, 1, (CHOOSE i \in stop : \A j \in stop : i <= j) - 1)

\* the number a sign and a run of digits denote: NaN when there is no digit
SignedValue(neg, ds) ==
    IF ds = <<>> THEN NaN
    ELSE Num(IF neg THEN 0 - DigitsVal(ds) ELSE DigitsVal(ds))

\* parseInt of a string without leading whitespace
ParseIntOf(t) ==
    SignedValue(t # <<>> /\ t[1] = "-",
                DigitRun(IF t # <<>> /\ t[1] \in {"-", "+"} THEN Tail(t) ELSE t))

\* parseInt(s), radix 10: leading whitespace, an optional sign, then the
\* longest run of digits; NaN when there is no digit (or s is undefined)
ParseInt(s) == IF s = Undefined THEN NaN ELSE ParseIntOf(Trim(s))

\* the number, in tenths, of a sign, the digits ds before the point and the
\* text rest after them
TenthsValue(neg, ds, rest) ==
    LET fs == IF rest # <<>> /\ rest[1] = "." THEN DigitRun(Tail(rest)) ELSE <<>>
    IN  IF ds = <<>> /\ fs = <<>> THEN NaN
        ELSE SignedValue(neg, ds \o (IF fs = <<>> THEN <<"0">> ELSE <<fs[1]>>))

\* parseFloat of an unsigned string
ParseFloatBody(neg, body, ds) == TenthsValue(neg, ds, SubSeq(body, Len(ds) + 1, Len(body)))

\* parseFloat of a string without leading whitespace
ParseFloatOf(t) ==
    LET body == IF t # <<>> /\ t[1] \in {"-", "+"} THEN Tail(t) ELSE t
    IN  ParseFloatBody(t # <<>> /\ t[1] = "-", body, DigitRun(body))

\* parseFloat(s) in tenths, for text with at most one digit after the point
ParseFloat(s) == IF s = Undefined THEN NaN ELSE ParseFloatOf(Trim(s))

\* Number.prototype.toString of a non-negative integer
RECURSIVE NatToString(_)
NatToString(n) ==
    IF n < 10 THEN <<FromCharCode(48 + n)>>
    ELSE NatToString(n \div 10) \o <<FromCharCode(48 + (n % 10))>>

\* toString of a JS integer value
IntToString(a) ==
    IF a.t = "nan" THEN <<"N", "a", "N">>
    ELSE IF a.v < 0 THEN <<"-">> \o NatToString(0 - a.v)
    ELSE NatToString(a.v)

\* toString of a JS number kept in tenths: 65 is "6.5", 60 is "6"
TenthsToString(a) ==
    IF a.t = "nan" THEN <<"N", "a", "N">>
    ELSE LET m == IF a.v < 0 THEN 0 - a.v ELSE a.v
             s == NatToString(m \div 10)
                    \o (IF m % 10 = 0 THEN <<>> ELSE <<".">> \o NatToString(m % 10))
         IN  IF a.v < 0 THEN <<"-">> \o s ELSE s

---------------------------------------------------------------------------
(* class Node: the arena is a sequence of records; properties is the Map,  *)
(* a sequence of [key, values] in insertion order.                         *)

MapHas(props, key) == \E i \in DOMAIN props : props[i].key = key

MapGet(props, key) == props[CHOOSE i \in DOMAIN props : props[i].key = key].values

MapSet(props, key, values) ==
    IF MapHas(props, key)
    THEN [i \in DOMAIN props |->
            IF props[i].key = key THEN [key |-> key, values |-> values] ELSE props[i]]
    ELSE Append(props, [key |-> key, values |-> values])

MapDelete(props, key) == SelectSeq(props, LAMBDA e : e.key # key)

\* new Node(null)
RootNode == [properties |-> <<>>, children |-> <<>>, parent |-> 0]

\* new Node(parent), parent a handle: the new node gets the next handle
NewNode(ns, parent) ==
    Append([ns EXCEPT ![parent].children = Append(@, Len(ns) + 1)],
           [properties |-> <<>>, children |-> <<>>, parent |-> parent])

\* safeString without the replacement
safeStringBare(s) == s

\* "safe" meaning safely escaped \ and ] characters
RECURSIVE safeString(_)
safeString(s) ==
    IF s = <<>> THEN <<>>
    ELSE (IF s[1] \in {"]", "\\"} THEN <<"\\", s[1]>> ELSE <<s[1]>>) \o safeString(Tail(s))

safeCommit(ns, n, key, value) ==
    LET safe_s == safeString(value)
    IN  [ns EXCEPT ![n].properties =
            IF safe_s # <<>> THEN MapSet(@, key, <<safe_s>>) ELSE MapDelete(@, key)]

addValue(ns, n, key, value) ==
    LET had == IF MapHas(ns[n].properties, key) THEN MapGet(ns[n].properties, key) ELSE <<>>
        now == IF \E i \in DOMAIN had : had[i] = value THEN had ELSE Append(had, value)
    IN  [ns EXCEPT ![n].properties = MapSet(@, key, now)]

setValue(ns, n, key, value) ==
    [ns EXCEPT ![n].properties = MapSet(@, key, <<value>>)]

---------------------------------------------------------------------------
(* stringFromPoint and handicapPoints.                                     *)

\* a + n for a JS number a and an integer n
Plus(a, n) == IF a.t = "nan" THEN NaN ELSE Num(NumVal(a) + n)

\* stringFromPoint throws ValueError (x and y are JS numbers)
stringFromPointThrows(x, y) == Lt(x, 1) \/ Gt(x, 26) \/ Lt(y, 1) \/ Gt(y, 26)

\* String.fromCharCode(a + 96): of NaN, the character of code 0
PointChar(a) == IF IsNum(a) THEN FromCharCode(a.v + 96) ELSE "NUL"

\* convert x, y into an SGF coordinate, e.g. "pd"
stringFromPoint(x, y) == <<PointChar(x), PointChar(y)>>

\* The JavaScript Set holds arrays, which it compares by identity: every
\* add() inserts a new element.  The result is the sequence of the points
\* added, in insertion order.
handicapPoints(boardsize, handicap0, tygem) ==
    LET handicap == IF handicap0 > 9 THEN 9 ELSE handicap0
        d == IF boardsize < 13 THEN 2 ELSE 3
        mid == (boardsize + 1) \div 2
        p2 == IF handicap >= 2
              THEN << <<boardsize - d, 1 + d>>, <<1 + d, boardsize - d>> >>
              ELSE <<>>
        p3 == IF handicap >= 3
              THEN << IF tygem THEN <<1 + d, 1 + d>>
                               ELSE <<boardsize - d, boardsize - d>> >>
              ELSE <<>>
        p4 == IF handicap >= 4
              THEN << IF tygem THEN <<boardsize - d, boardsize - d>>
                               ELSE <<1 + d, 1 + d>> >>
              ELSE <<>>
        p5 == IF handicap \in {5, 7, 9} THEN << <<mid, mid>> >> ELSE <<>>
        p6 == IF handicap \in {6, 7, 8, 9}
              THEN << <<1 + d, mid>>, <<boardsize - d, mid>> >>
              ELSE <<>>
        p8 == IF handicap \in {8, 9}
              THEN << <<mid, 1 + d>>, <<mid, boardsize - d>> >>
              ELSE <<>>
    IN  IF boardsize < 4 THEN <<>>
        ELSE IF boardsize % 2 = 0 THEN p2 \o p3 \o p4
        ELSE p2 \o p3 \o p4 \o p5 \o p6 \o p8

\* The lines a .gib text of the model is made of.
GibLines ==
    <<
      \* 1: \[GAMEBLACKNAME=a (5d)\]   -- black player a, rank 5d
      <<"\\", "[", "G", "A", "M", "E", "B", "L", "A", "C", "K", "N", "A",
        "M", "E", "=", "a", " ", "(", "5", "d", ")", "\\", "]">>,
      \* 2: \[GAMEBLACKNAME=b\]   -- black player b, no rank
      <<"\\", "[", "G", "A", "M", "E", "B", "L", "A", "C", "K", "N", "A",
        "M", "E", "=", "b", "\\", "]">>,
      \* 3: \[GAMEWHITENAME=w(1k)\]   -- white player w, rank 1k
      <<"\\", "[", "G", "A", "M", "E", "W", "H", "I", "T", "E", "N", "A",
        "M", "E", "=", "w", "(", "1", "k", ")", "\\", "]">>,
      \* 4: \[GAMEINFOMAIN=GRLT:3,ZIPSU:0,GONGJE:65,\]   -- result B+R, komi 6.5
      <<"\\", "[", "G", "A", "M", "E", "I", "N", "F", "O", "M", "A", "I",
        "N", "=", "G", "R", "L", "T", ":", "3", ",", "Z", "I", "P", "S",
        "U", ":", "0", ",", "G", "O", "N", "G", "J", "E", ":", "6", "5",
        ",", "\\", "]">>,
      \* 5: \[GAMETAG=S0,C2020:01:02,W1,Z25,G60,\]   -- date 2020-01-02, result W+2.5, komi 6
      <<"\\", "[", "G", "A", "M", "E", "T", "A", "G", "=", "S", "0", ",",
        "C", "2", "0", "2", "0", ":", "0", "1", ":", "0", "2", ",", "W",
        "1", ",", "Z", "2", "5", ",", "G", "6", "0", ",", "\\", "]">>,
      \* 6: \[GAMETAG=S0,C2021:03:04,W4,Z0,G5,\]   -- date 2021-03-04, result W+R, komi 0.5
      <<"\\", "[", "G", "A", "M", "E", "T", "A", "G", "=", "S", "0", ",",
        "C", "2", "0", "2", "1", ":", "0", "3", ":", "0", "4", ",", "W",
        "4", ",", "Z", "0", ",", "G", "5", ",", "\\", "]">>,
      \* 7: INI 0 1 2 &4   -- initial setup, handicap 2
      <<"I", "N", "I", " ", "0", " ", "1", " ", "2", " ", "&", "4">>,
      \* 8: INI 0 1 3   -- initial setup, handicap 3
      <<"I", "N", "I", " ", "0", " ", "1", " ", "3">>,
      \* 9: INI 0 1 10   -- initial setup, handicap 10
      <<"I", "N", "I", " ", "0", " ", "1", " ", "1", "0">>,
      \* 10: STO 0 2 1 3 3   -- black move at (4,4)
      <<"S", "T", "O", " ", "0", " ", "2", " ", "1", " ", "3", " ", "3">>,
      \* 11: STO 0 3 2 15 15    -- white move at (16,16)
      <<"S", "T", "O", " ", "0", " ", "3", " ", "2", " ", "1", "5", " ",
        "1", "5", " ">>,
      \* 12: STO 0 4 1 30 3   -- a move off the encodable range
      <<"S", "T", "O", " ", "0", " ", "4", " ", "1", " ", "3", "0", " ",
        "3">>,
      \* 13: \[GAMEWHITENAME=x]\y\]   -- white player x]\y: a bracket and a backslash
      <<"\\", "[", "G", "A", "M", "E", "W", "H", "I", "T", "E", "N", "A",
        "M", "E", "=", "x", "]", "\\", "y", "\\", "]">>
    >>

---------------------------------------------------------------------------
(* parseGib.                                                               *)

\* line.match(/PRE(\d+),/)[1] for a literal prefix PRE: the digits of the
\* leftmost match, or Undefined when the pattern does not match
MatchNum(s, pre) ==
    LET run(p) == DigitRun(SubSeq(s, p + Len(pre), Len(s)))
        hits == {p \in DOMAIN s :
                    /\ OccursAt(s, pre, p)
                    /\ run(p) # <<>>
                    /\ p + Len(pre) + Len(run(p)) <= Len(s)
                    /\ s[p + Len(pre) + Len(run(p))] = ","}
    IN  IF hits = {} THEN Undefined
        ELSE run(CHOOSE p \in hits : \A q \in hits : p <= q)

\* line.match(/C(\d\d\d\d):(\d\d):(\d\d)/).slice(1).join("-"), or Undefined
MatchDate(s) ==
    LET digitsAt(p, n) == p + n - 1 <= Len(s) /\ \A i \in p..(p + n - 1) : IsDigit(s[i])
        hits == {p \in DOMAIN s :
                    /\ s[p] = "C"
                    /\ digitsAt(p + 1, 4)
                    /\ p + 10 <= Len(s)
                    /\ s[p + 5] = ":" /\ digitsAt(p + 6, 2)
                    /\ s[p + 8] = ":" /\ digitsAt(p + 9, 2)}
    IN  IF hits = {} THEN Undefined
        ELSE LET p == CHOOSE h \in hits : \A q \in hits : h <= q
             IN  SubSeq(s, p + 1, p + 4) \o <<"-">> \o SubSeq(s, p + 6, p + 7)
                    \o <<"-">> \o SubSeq(s, p + 9, p + 10)

gibMakeResult(grlt, zipsu) ==
    IF grlt = 3 THEN <<"B", "+", "R">>
    ELSE IF grlt = 4 THEN <<"W", "+", "R">>
    ELSE IF grlt = 7 THEN <<"B", "+", "T">>
    ELSE IF grlt = 8 THEN <<"W", "+", "T">>
    ELSE IF grlt \in {0, 1}
    THEN (IF grlt = 0 THEN <<"B">> ELSE <<"W">>) \o <<"+">> \o TenthsToString(Num(zipsu))
    ELSE <<>>

\* grltPre and zipsuPre are the literal prefixes of the two patterns
gibGetResult(line, grltPre, zipsuPre) ==
    LET g == MatchNum(line, grltPre)
        z == MatchNum(line, zipsuPre)
    IN  IF g = Undefined THEN <<>>
        ELSE IF z = Undefined THEN <<>>
        ELSE gibMakeResult(ParseInt(g).v, ParseInt(z).v)

\* returns <<name, rank>>
parsePlayerName(raw) ==
    LET foo == Split(raw, "(")
        ok == Len(foo) = 2 /\ CharAt(foo[2], Len(foo[2]) - 1) = <<")">>
        name == IF ok THEN Trim(foo[1]) ELSE <<>>
        rank == IF ok THEN SubSeq(foo[2], 1, Len(foo[2]) - 1) ELSE <<>>
    IN  IF name # <<>> THEN <<name, rank>> ELSE <<raw, <<>> >>

\* The if block of the loop body that a (trimmed) line enters.  The six
\* conditions are pairwise exclusive, no string starting with two of the
\* prefixes, so a line enters at most one block.
gibBlock(line) ==
    IF StartsWith(line, <<"\\", "[", "G", "A", "M", "E", "B", "L", "A", "C", "K", "N", "A", "M", "E", "=">>) /\ EndsWith(line, <<"\\", "]">>)
    THEN "GAMEBLACKNAME"
    ELSE IF StartsWith(line, <<"\\", "[", "G", "A", "M", "E", "W", "H", "I", "T", "E", "N", "A", "M", "E", "=">>) /\ EndsWith(line, <<"\\", "]">>)
    THEN "GAMEWHITENAME"
    ELSE IF StartsWith(line, <<"\\", "[", "G", "A", "M", "E", "I", "N", "F", "O", "M", "A", "I", "N", "=">>) THEN "GAMEINFOMAIN"
    ELSE IF StartsWith(line, <<"\\", "[", "G", "A", "M", "E", "T", "A", "G", "=">>) THEN "GAMETAG"
    ELSE IF Slice(line, 0, 3) = <<"I", "N", "I">> THEN "INI"
    ELSE IF Slice(line, 0, 3) = <<"S", "T", "O">> THEN "STO"
    ELSE "none"

\* the body of the GAMEBLACKNAME and GAMEWHITENAME blocks: nameKey and
\* rankKey are the properties the block sets
gibPlayer(ns, line, nameKey, rankKey) ==
    LET s == SubSeq(line, 17, Len(line) - 2)
        nr == parsePlayerName(s)
        n1 == IF nr[1] # <<>> THEN safeCommit(ns, 1, nameKey, nr[1]) ELSE ns
    IN  IF nr[2] # <<>> THEN safeCommit(n1, 1, rankKey, nr[2]) ELSE n1

\* the body of the GAMEINFOMAIN block
gibInfoMain(ns, line) ==
    LET result == gibGetResult(line, <<"G", "R", "L", "T", ":">>, <<"Z", "I", "P", "S", "U", ":">>)
        n1 == IF ~MapHas(ns[1].properties, "RE") /\ result # <<>>
              THEN setValue(ns, 1, "RE", result) ELSE ns
        match == MatchNum(line, <<"G", "O", "N", "G", "J", "E", ":">>)
        komi == ParseInt(match)
    IN  IF ~MapHas(ns[1].properties, "KM") /\ match # Undefined /\ komi.v # 0
        THEN setValue(n1, 1, "KM", TenthsToString(komi)) ELSE n1

\* the body of the GAMETAG block
gibTag(ns, line) ==
    LET date == MatchDate(line)
        n1 == IF ~MapHas(ns[1].properties, "DT") /\ date # Undefined
              THEN setValue(ns, 1, "DT", date) ELSE ns
        result == gibGetResult(line, <<",", "W">>, <<",", "Z">>)
        n2 == IF ~MapHas(ns[1].properties, "RE") /\ result # <<>>
              THEN setValue(n1, 1, "RE", result) ELSE n1
        match == MatchNum(line, <<",", "G">>)
    IN  IF ~MapHas(ns[1].properties, "KM") /\ match # Undefined
        THEN setValue(n2, 1, "KM", TenthsToString(ParseInt(match))) ELSE n2

\* root.addValue("AB", stringFromPoint(point[0], point[1])) for each stone
\* (the points handicapPoints gives from a board size of 4 to 26 all encode)
RECURSIVE addStones(_, _, _)
addStones(ns, n, stones) ==
    IF stones = <<>> THEN ns
    ELSE addStones(addValue(ns, n, "AB", stringFromPoint(Num(stones[1][1]), Num(stones[1][2]))),
                   n, Tail(stones))

\* a variant of the INI block without the check that no move node exists
gibIniAnywhere(ns, nd, line) ==
    LET setup == SplitWs(Trim(line))
        handicap == ParseInt(At(setup, 3))
    IN  IF ~Truthy(At(setup, 3))
        THEN [nodes |-> ns, threw |-> FALSE]
        ELSE IF Lt(handicap, 0) \/ Gt(handicap, 9)
        THEN [nodes |-> ns, threw |-> TRUE]
        ELSE IF Ge(handicap, 2)
        THEN [nodes |-> addStones(setValue(ns, nd, "HA", IntToString(handicap)), nd,
                                  handicapPoints(19, handicap.v, TRUE)),
              threw |-> FALSE]
        ELSE [nodes |-> ns, threw |-> FALSE]

\* the body of the INI block: the arena after it, and whether it threw
\* ParserFail (the continue of line 702 ends the iteration, as the end of
\* the block does: an INI line is no STO line)
gibIni(ns, nd, line) ==
    IF nd # 1
    THEN [nodes |-> ns, threw |-> TRUE]
    ELSE LET setup == SplitWs(Trim(line))
             handicap == ParseInt(At(setup, 3))
         IN  IF ~Truthy(At(setup, 3))
             THEN [nodes |-> ns, threw |-> FALSE]
             ELSE IF Lt(handicap, 0) \/ Gt(handicap, 9)
             THEN [nodes |-> ns, threw |-> TRUE]
             ELSE IF Ge(handicap, 2)
             THEN [nodes |-> addStones(setValue(ns, nd, "HA", IntToString(handicap)),
                                       nd, handicapPoints(19, handicap.v, TRUE)),
                   threw |-> FALSE]
             ELSE [nodes |-> ns, threw |-> FALSE]

\* the body of the STO block: the arena and the current node after it
gibSto(ns, nd, line) ==
    LET move == SplitWs(Trim(line))
        key == IF At(move, 3) = <<"1">> THEN "B" ELSE "W"
        x == Plus(ParseInt(At(move, 4)), 1)
        y == Plus(ParseInt(At(move, 5)), 1)
    IN  IF ~Truthy(At(move, 4)) \/ ~Truthy(At(move, 5))
        THEN [nodes |-> ns, node |-> nd]
        ELSE IF stringFromPointThrows(x, y)
        THEN [nodes |-> ns, node |-> nd]
        ELSE [nodes |-> setValue(NewNode(ns, nd), Len(ns) + 1, key, stringFromPoint(x, y)),
              node |-> Len(ns) + 1]

\* The lines a .ngf text of the model is made of.
NgfLines ==
    <<
      \* 1: Rated game   -- line 0: the title
      <<"R", "a", "t", "e", "d", " ", "g", "a", "m", "e">>,
      \* 2: 19   -- line 1: board size 19
      <<"1", "9">>,
      \* 3: 9   -- line 1: board size 9
      <<"9">>,
      \* 4: size   -- line 1: no number
      <<"s", "i", "z", "e">>,
      \* 5: w 5d   -- line 2: the white player
      <<"w", " ", "5", "d">>,
      \* 6: b 4d   -- line 3: the black player
      <<"b", " ", "4", "d">>,
      \* 7: x   -- lines 4 and 9: of no meaning
      <<"x">>,
      \* 8: 0   -- lines 5 and 6: handicap 0
      <<"0">>,
      \* 9: 2   -- line 5: handicap 2
      <<"2">>,
      \* 10: h   -- line 5: no number
      <<"h">>,
      \* 11: 6   -- line 7: komi 6
      <<"6">>,
      \* 12: k   -- line 7: no number
      <<"k">>,
      \* 13: 20200102 [12:00]   -- line 8: the date
      <<"2", "0", "2", "0", "0", "1", "0", "2", " ", "[", "1", "2", ":",
        "0", "0", "]">>,
      \* 14: White win by resign   -- line 10: the result
      <<"W", "h", "i", "t", "e", " ", "w", "i", "n", " ", "b", "y", " ",
        "r", "e", "s", "i", "g", "n">>,
      \* 15: PMABBEE   -- black move at (4,4)
      <<"P", "M", "A", "B", "B", "E", "E">>,
      \* 16: PMACWPP   -- white move at (15,15)
      <<"P", "M", "A", "C", "W", "P", "P">>,
      \* 17: PMADBAA   -- a move off the encodable range
      <<"P", "M", "A", "D", "B", "A", "A">>,
      \* 18: b]\ 4d   -- line 3: black player b]\, a bracket and a backslash
      <<"b", "]", "\\", " ", "4", "d">>
    >>

\* the eleven header lines of a .ngf text: every choice of the board size,
\* black player, handicap and komi lines
NgfHeaders ==
    {<<1, sz, 5, pb, 7, hc, 8, km, 13, 7, 14>> : sz \in {2, 3, 4}, pb \in {6, 18},
                                                  hc \in {8, 9, 10}, km \in {11, 12}}

NgfMoves == {15, 16, 17}

---------------------------------------------------------------------------
(* parseNgf.                                                               *)

\* the calls made on the root, in order: [op, key, value] stands for
\* root.setValue, root.addValue or root.safeCommit of key and value
RECURSIVE applyCalls(_, _)
applyCalls(ns, calls) ==
    IF calls = <<>> THEN ns
    ELSE LET c == Head(calls)
         IN  applyCalls(IF c.op = "setValue" THEN setValue(ns, 1, c.key, c.value)
                        ELSE IF c.op = "addValue" THEN addValue(ns, 1, c.key, c.value)
                        ELSE safeCommit(ns, 1, c.key, c.value),
                        Tail(calls))

\* lines 443-450: the fixed line read as an integer
ngfInteger(line, default) ==
    LET n == ParseInt(line)
    IN  IF IsNum(n) THEN Num(default) ELSE n

\* lines 455-460, on the value k0 of parseFloat(lines[7]), in tenths
ngfKomiOf(k0, handicap) ==
    IF IsNum(k0)
    THEN (IF handicap = Num(0) THEN Num(5) ELSE Num(0))
    ELSE k0

\* lines 454-460: the komi, in tenths.  A finite komi is set to 0, which
\* is whole (parseInt(komi) === komi), so 0.5 is added when handicap === 0;
\* NaN is left as it is.
ngfKomi(line, handicap) == ngfKomiOf(ParseFloat(line), handicap)

\* lines 462-469
ngfResult(line) ==
    IF Truthy(line)
    THEN IF Includes(line, <<"h", "i", "t", "e", " ", "w", "i", "n">>) THEN <<"W", "+">>
         ELSE IF Includes(line, <<"l", "a", "c", "k", " ", "w", "i", "n">>) THEN <<"B", "+">>
         ELSE <<>>
    ELSE <<>>

\* lines 494-505: the date when rawdate is eight digits, else the empty string
ngfDate(rawdate) ==
    IF Len(rawdate) = 8 /\ \A n \in 1..8 : IsDigit(rawdate[n])
    THEN SubSeq(rawdate, 1, 4) \o <<"-">> \o SubSeq(rawdate, 5, 6) \o <<"-">>
            \o SubSeq(rawdate, 7, 8)
    ELSE <<>>

\* the stones of line 484-487 as addValue calls.  handicapPoints is called
\* with a handicap >= 2; a board size that is NaN gives points that
\* stringFromPoint encodes with the character of code 0.
ngfStones(boardsize, handicap) ==
    LET stones == IF IsNum(boardsize) THEN handicapPoints(boardsize.v, handicap.v, TRUE)
                  ELSE [i \in 1..(IF handicap.v > 9 THEN 9 ELSE handicap.v) |-> <<0, 0>>]
    IN  [i \in DOMAIN stones |->
            [op |-> "addValue", key |-> "AB",
             value |-> IF IsNum(boardsize)
                       THEN stringFromPoint(Num(stones[i][1]), Num(stones[i][2]))
                       ELSE <<"NUL", "NUL">>]]

\* the calls lines 480-516 make on the root, given the values lines
\* 443-469 have computed
ngfCalls(boardsize, handicap, pw, pb, date, komi, re) ==
    <<[op |-> "setValue", key |-> "SZ", value |-> IntToString(boardsize)]>>
    \o (IF Ge(handicap, 2)
        THEN <<[op |-> "setValue", key |-> "HA", value |-> IntToString(handicap)]>>
                \o ngfStones(boardsize, handicap)
        ELSE <<>>)
    \o (IF IsNum(komi) /\ komi.v # 0
        THEN <<[op |-> "setValue", key |-> "KM", value |-> TenthsToString(komi)]>>
        ELSE <<>>)
    \o (IF date # <<>> THEN <<[op |-> "setValue", key |-> "DT", value |-> date]>> ELSE <<>>)
    \o (IF pw # <<>> THEN <<[op |-> "safeCommit", key |-> "PW", value |-> pw]>> ELSE <<>>)
    \o (IF pb # <<>> THEN <<[op |-> "safeCommit", key |-> "PB", value |-> pb]>> ELSE <<>>)
    \o (IF re # <<>> THEN <<[op |-> "setValue", key |-> "RE", value |-> re]>> ELSE <<>>)

\* lines 451-453: the first token of a player line, the first eight
\* characters of the date line; the empty string when the line is missing
ngfFirstToken(line) == IF Truthy(line) THEN SplitWs(Trim(line))[1] ELSE <<>>

ngfRawDate(line) == IF Truthy(line) THEN Slice(line, 0, 8) ELSE <<>>

\* lines 434-516 of parseNgf, the text before the main loop: whether it
\* throws ParserFail (handicap is the value of line 447-450), and the calls
\* it makes on the root
ngfHeadOf(lines, handicap) ==
    [threw |-> Lt(handicap, 0) \/ Gt(handicap, 9),
     calls |-> ngfCalls(ngfInteger(At(lines, 1), 19), handicap,
                        ngfFirstToken(At(lines, 2)), ngfFirstToken(At(lines, 3)),
                        ngfDate(ngfRawDate(At(lines, 8))),
                        ngfKomi(At(lines, 7), handicap),
                        ngfResult(At(lines, 10)))]

ngfHead(lines) == ngfHeadOf(lines, ngfInteger(At(lines, 5), 0))

\* the body of the main loop of parseNgf: the arena and the current node
\* after the line
ngfMove(ns, nd, line0) ==
    LET line == ToUpperCase(Trim(line0))
        x == Num(CharCode(line[6]) - 65)
        y == Num(CharCode(line[7]) - 65)
    IN  IF Len(line) >= 7 /\ Slice(line, 0, 2) = <<"P", "M">> /\ line[5] \in {"B", "W"}
           /\ ~stringFromPointThrows(x, y)
        THEN [nodes |-> setValue(NewNode(ns, nd), Len(ns) + 1, line[5],
                                 stringFromPoint(x, y)),
              node |-> Len(ns) + 1]
        ELSE [nodes |-> ns, node |-> nd]

\* The lines a .ugf or .ugi text of the model is made of.
UgfLines ==
    <<
      \* 1: [HEADER]   -- the header section
      <<"[", "H", "E", "A", "D", "E", "R", "]">>,
      \* 2: HDCP=2,0.5   -- handicap 2, komi 0.5
      <<"H", "D", "C", "P", "=", "2", ",", "0", ".", "5">>,
      \* 3: HDCP=0,5.5   -- handicap 0, komi 5.5
      <<"H", "D", "C", "P", "=", "0", ",", "5", ".", "5">>,
      \* 4: SIZE=19   -- board size 19
      <<"S", "I", "Z", "E", "=", "1", "9">>,
      \* 5: SIZE=25   -- board size 25
      <<"S", "I", "Z", "E", "=", "2", "5">>,
      \* 6: COORDINATETYPE=IGS   -- coordinates from the bottom left
      <<"C", "O", "O", "R", "D", "I", "N", "A", "T", "E", "T", "Y", "P",
        "E", "=", "I", "G", "S">>,
      \* 7: [DATA]   -- the data section
      <<"[", "D", "A", "T", "A", "]">>,
      \* 8: PD,B1,0,0   -- black stone at (16,4), marked 0
      <<"P", "D", ",", "B", "1", ",", "0", ",", "0">>,
      \* 9: DP,B1,0,0   -- black stone at (4,16), marked 0
      <<"D", "P", ",", "B", "1", ",", "0", ",", "0">>,
      \* 10: QQ,W1,1,5   -- white move at (17,17)
      <<"Q", "Q", ",", "W", "1", ",", "1", ",", "5">>,
      \* 11: x   -- a malformed record
      <<"x">>
    >>

\* The file names main is given.
FileNames ==
    <<
      \* 1: a.gib
      <<"a", ".", "g", "i", "b">>,
      \* 2: dir/b.ngf
      <<"d", "i", "r", "/", "b", ".", "n", "g", "f">>,
      \* 3: c.ugf
      <<"c", ".", "u", "g", "f">>,
      \* 4: d.UGI
      <<"d", ".", "U", "G", "I">>,
      \* 5: e.txt
      <<"e", ".", "t", "x", "t">>,
      \* 6: f
      <<"f">>
    >>

\* the lines of a .ugf text up to and including [DATA]: handicap 2 on a
\* 19x19 board; no handicap, with IGS coordinates; a board size out of
\* range; and no header at all
UgfHeads == {<<1, 2, 4, 7>>, <<1, 3, 4, 6, 7>>, <<1, 3, 5, 7>>, <<>>}

UgfRecords == {8, 9, 10, 11}

---------------------------------------------------------------------------
(* parseUgf.                                                               *)

\* a < b for two JS values (numbers, NaN or null)
LtV(a, b) == a.t # "nan" /\ b.t # "nan" /\ NumVal(a) < NumVal(b)

\* The try block of lines 291-311.  Its condition calls line.chatAt, a
\* method no string has: evaluating it throws a TypeError before anything
\* else in the block runs, and the catch of line 311 swallows it.  So the
\* block never runs its continue and never throws ParserFail; and the
\* `section` it would declare is a const of the block, not the parser's.
ugfTry(line) == [threw |-> FALSE, continue |-> FALSE]

\* the text after the first "=" of a header line (up to a second "=")
ugfRhs(line) == Split(line, "=")[2]

\* the calls the [HEADER] branch (lines 313-365) makes on the root
ugfHeaderCalls(line, up) ==
    IF StartsWith(up, <<"H", "D", "C", "P", "=">>)
    THEN (IF Ge(ParseInt(Split(ugfRhs(line), ",")[1]), 2)
          THEN <<[op |-> "setValue", key |-> "HA",
                  value |-> IntToString(ParseInt(Split(ugfRhs(line), ",")[1]))]>>
          ELSE <<>>)
         \o <<[op |-> "setValue", key |-> "KM",
               value |-> TenthsToString(ParseFloat(At(Split(ugfRhs(line), ","), 1)))]>>
    ELSE IF StartsWith(up, <<"S", "I", "Z", "E", "=">>)
    THEN <<[op |-> "setValue", key |-> "SZ", value |-> IntToString(ParseInt(ugfRhs(line)))]>>
    ELSE IF StartsWith(up, <<"C", "O", "O", "R", "D", "I", "N", "A", "T", "E", "T", "Y", "P", "E", "=">>) THEN <<>>
    ELSE IF StartsWith(up, <<"P", "L", "A", "Y", "E", "R", "B", "=">>)
    THEN <<[op |-> "safeCommit", key |-> "PB", value |-> SliceFrom(line, 8)]>>
    ELSE IF StartsWith(up, <<"P", "L", "A", "Y", "E", "R", "W", "=">>)
    THEN <<[op |-> "safeCommit", key |-> "PW", value |-> SliceFrom(line, 8)]>>
    ELSE IF StartsWith(up, <<"P", "L", "A", "C", "E", "=">>)
    THEN <<[op |-> "safeCommit", key |-> "PC", value |-> SliceFrom(line, 6)]>>
    ELSE IF StartsWith(up, <<"T", "I", "T", "L", "E", "=">>)
    THEN <<[op |-> "safeCommit", key |-> "GN", value |-> SliceFrom(line, 6)]>>
    ELSE IF StartsWith(up, <<"W", "I", "N", "N", "E", "R", "=", "B">>)
    THEN <<[op |-> "setValue", key |-> "RE", value |-> <<"B", "+">>]>>
    ELSE IF StartsWith(up, <<"W", "I", "N", "N", "E", "R", "=", "W">>)
    THEN <<[op |-> "setValue", key |-> "RE", value |-> <<"W", "+">>]>>
    ELSE <<>>

\* the locals after the [HEADER] branch
ugfHeaderLocals(lc, line, up) ==
    IF StartsWith(up, <<"H", "D", "C", "P", "=">>)
    THEN [lc EXCEPT !.handicap = ParseInt(Split(ugfRhs(line), ",")[1])]
    ELSE IF StartsWith(up, <<"S", "I", "Z", "E", "=">>)
    THEN [lc EXCEPT !.boardsize = ParseInt(ugfRhs(line))]
    ELSE IF StartsWith(up, <<"C", "O", "O", "R", "D", "I", "N", "A", "T", "E", "T", "Y", "P", "E", "=">>)
    THEN [lc EXCEPT !.coordinateType = ToUpperCase(ugfRhs(line))]
    ELSE lc

\* lines 391-410: the value of a record with the coordinate characters
\* xChr and yChr; skip when stringFromPoint throws
ugfValue(lc, x, y) ==
    IF LtV(lc.boardsize, x) \/ Lt(x, 1) \/ LtV(lc.boardsize, y) \/ Lt(y, 1)
    THEN [skip |-> FALSE, value |-> <<>>]
    ELSE [skip |-> stringFromPointThrows(x, y), value |-> stringFromPoint(x, y)]

\* y of lines 393-399
ugfY(lc, yChr) ==
    IF lc.coordinateType = <<"I", "G", "S">>
    THEN (IF lc.boardsize.t = "nan" THEN NaN
          ELSE Num((NumVal(lc.boardsize) - (CharCode(yChr) - 64)) + 1))
    ELSE Num(CharCode(yChr) - 64)

\* lines 411-421, for a record of colour colour with the marker nodeChr
ugfPlace(ns, nd, lc, colour, nodeChr, v) ==
    IF v.skip THEN [nodes |-> ns, node |-> nd, loc |-> lc]
    ELSE IF /\ Ge(lc.handicap, 2)
            /\ Num(lc.handicapStonesSet) # lc.handicap
            /\ nodeChr = <<"0">>
            /\ colour = "B"
            /\ nd = 1
    THEN [nodes |-> addValue(ns, nd, "AB", v.value), node |-> nd,
          loc |-> [lc EXCEPT !.handicapStonesSet = @ + 1]]
    ELSE [nodes |-> setValue(NewNode(ns, nd), Len(ns) + 1, colour, v.value),
          node |-> Len(ns) + 1, loc |-> lc]

\* the [DATA] branch (lines 367-422) on the fields slist of the line
ugfRecord(ns, nd, lc, slist) ==
    IF \/ Len(slist) < 2              \* slist[1] is undefined: a TypeError, caught
       \/ Len(slist[1]) < 2 \/ slist[2] = <<>>
       \/ slist[2][1] \notin {"B", "W"}
    THEN [nodes |-> ns, node |-> nd, loc |-> lc]
    ELSE ugfPlace(ns, nd, lc, slist[2][1],
                  IF Truthy(At(slist, 2)) THEN CharAt(slist[3], 0) ELSE <<>>,
                  ugfValue(lc, Num(CharCode(slist[1][1]) - 64), ugfY(lc, slist[1][2])))

ugfData(ns, nd, lc, line) == ugfRecord(ns, nd, lc, Split(ToUpperCase(line), ","))

\* one iteration of the loop of parseUgf on the trimmed line: what follows
\* the try block.  section is the parser's `section`.
ugfLine(ns, nd, lc, line) ==
    IF lc.section = "[HEADER]"
    THEN [nodes |-> applyCalls(ns, ugfHeaderCalls(line, ToUpperCase(line))), node |-> nd,
          loc |-> ugfHeaderLocals(lc, line, ToUpperCase(line))]
    ELSE IF lc.section = "[DATA]"
    THEN ugfData(ns, nd, lc, line)
    ELSE [nodes |-> ns, node |-> nd, loc |-> lc]

---------------------------------------------------------------------------
(* getExtension, baseName and the loaders table.                           *)

IsWordChar(c) == IsDigit(c) \/ c = "_" \/ UpperChar(c) \in {Ascii[i] : i \in 34..59}

\* filename.match(/(\.\w+)$/): the match in lower case, or Undefined (null)
getExtension(filename) ==
    LET hits == {p \in DOMAIN filename :
                    /\ filename[p] = "."
                    /\ p < Len(filename)
                    /\ \A q \in (p + 1)..Len(filename) : IsWordChar(filename[q])}
    IN  IF hits = {} THEN Undefined
        ELSE ToLowerCase(SubSeq(filename, CHOOSE p \in hits : \A q \in hits : p <= q,
                                Len(filename)))

\* the key of loaders that e is, or "" when e is not in loaders
LoaderKey(e) ==
    IF e = <<".", "g", "i", "b">> THEN ".gib"
    ELSE IF e = <<".", "n", "g", "f">> THEN ".ngf"
    ELSE IF e = <<".", "u", "g", "f">> THEN ".ugf"
    ELSE IF e = <<".", "u", "g", "i">> THEN ".ugi"
    ELSE ""

\* the position of the last c in s, or 0
LastIndexOf(s, c) ==
    LET at == {i \in DOMAIN s : s[i] = c}
    IN  IF at = {} THEN 0 ELSE CHOOSE i \in at : \A j \in at : j <= i

\* what follows the last "/" of s
AfterSlash(s) == SubSeq(s, LastIndexOf(s, "/") + 1, Len(s))

\* base without what follows its last "."
StripExtension(base) ==
    IF LastIndexOf(base, ".") # 0 THEN SubSeq(base, 1, LastIndexOf(base, ".") - 1) ELSE base

baseName(str) == StripExtension(AfterSlash(str))

---------------------------------------------------------------------------
(* writeTree.  A chunk is one writeStream.write call: "open" is write("("),*)
(* "semi" is write(";"), "key" is write(key), "value" is                   *)
(* write(`[${value}]`) and "close" is write(")\n").                        *)

Open == [kind |-> "open", s |-> <<>>]

Semi == [kind |-> "semi", s |-> <<>>]

Close == [kind |-> "close", s |-> <<>>]

KeyChunk(key) == [kind |-> "key", s |-> key]

ValueChunk(value) == [kind |-> "value", s |-> value]

RECURSIVE Flatten(_)
Flatten(ss) == IF ss = <<>> THEN <<>> ELSE Head(ss) \o Flatten(Tail(ss))

\* the inner loops of writeTree: each key, then each of its values
writeProperties(props) ==
    Flatten([i \in DOMAIN props |->
                <<KeyChunk(props[i].key)>>
                    \o [j \in DOMAIN props[i].values |-> ValueChunk(props[i].values[j])]])

RECURSIVE writeTree(_, _)
RECURSIVE writeNodes(_, _)

\* a variant of the loop that opens a group for an only child too
writeNodesNested(ns, n) ==
    <<Semi>> \o writeProperties(ns[n].properties)
        \o (IF Len(ns[n].children) > 0
            THEN Flatten([j \in DOMAIN ns[n].children |-> writeTree(ns, ns[n].children[j])])
            ELSE <<>>)

\* the while (true) loop of writeTree, from the node n on
writeNodes(ns, n) ==
    <<Semi>> \o writeProperties(ns[n].properties)
        \o (IF Len(ns[n].children) > 1
            THEN Flatten([j \in DOMAIN ns[n].children |-> writeTree(ns, ns[n].children[j])])
            ELSE IF Len(ns[n].children) = 1
            THEN writeNodes(ns, ns[n].children[1])
            ELSE <<>>)

writeTree(ns, n) == <<Open>> \o writeNodes(ns, n) \o <<Close>>

---------------------------------------------------------------------------
(* The states no entry point is using.                                     *)

\* the locals of parseUgf as it starts, and main's filename
NoLocals == [boardsize |-> Null, handicap |-> Null, handicapStonesSet |-> 0,
             coordinateType |-> <<>>, section |-> "null", filename |-> <<>>]

NoCall == [boardsize |-> 0, handicap |-> 0, tygem |-> FALSE, points |-> <<>>]

IdleParse ==
    /\ ext = "" /\ text = <<>> /\ idx = 0 /\ node = 1
    /\ loc = NoLocals /\ err = "none"

IdleMain == argv = 0 /\ fi = 0 /\ log = <<>> /\ saved = {}

---------------------------------------------------------------------------
(* SpecHP: handicapPoints applied to every board size, handicap count and  *)
(* layout within the bounds.                                               *)

InitHP ==
    /\ pc = "hp_call"
    /\ hp \in [boardsize : 1..MaxBoard, handicap : 0..MaxHandicapArg,
               tygem : BOOLEAN, points : {<<>>}]
    /\ nodes = <<RootNode>> /\ out = <<>>
    /\ IdleParse /\ IdleMain

HandicapPointsCall ==
    /\ pc = "hp_call"
    /\ hp' = [hp EXCEPT !.points = handicapPoints(hp.boardsize, hp.handicap, hp.tygem)]
    /\ pc' = "hp_done"
    /\ UNCHANGED <<ext, text, idx, nodes, node, loc, err, out, argv, fi, log, saved>>

NextHP == HandicapPointsCall

SpecHP == InitHP /\ [][NextHP]_vars

---------------------------------------------------------------------------
(* SpecTree: a property tree built by the Node operations, then written.   *)

TreeKeys == {"B", "C"}

TreeValues == {<<"a", "a">>, <<"b", "]">>, <<>>}

InitTree ==
    /\ pc = "build"
    /\ nodes = <<RootNode>> /\ out = <<>>
    /\ hp = NoCall
    /\ IdleParse /\ IdleMain

\* new Node(parent)
TreeNewNode ==
    /\ pc = "build"
    /\ Len(nodes) < MaxNodes
    /\ \E parent \in DOMAIN nodes : nodes' = NewNode(nodes, parent)
    /\ UNCHANGED <<pc, ext, text, idx, node, loc, err, out, argv, fi, log, saved, hp>>

TreeSetValue ==
    /\ pc = "build"
    /\ idx < MaxOps
    /\ \E n \in DOMAIN nodes, key \in TreeKeys, value \in TreeValues :
          nodes' = setValue(nodes, n, key, value)
    /\ idx' = idx + 1
    /\ UNCHANGED <<pc, ext, text, node, loc, err, out, argv, fi, log, saved, hp>>

TreeAddValue ==
    /\ pc = "build"
    /\ idx < MaxOps
    /\ \E n \in DOMAIN nodes, key \in TreeKeys, value \in TreeValues :
          nodes' = addValue(nodes, n, key, value)
    /\ idx' = idx + 1
    /\ UNCHANGED <<pc, ext, text, node, loc, err, out, argv, fi, log, saved, hp>>

TreeSafeCommit ==
    /\ pc = "build"
    /\ idx < MaxOps
    /\ \E n \in DOMAIN nodes, key \in TreeKeys, value \in TreeValues :
          nodes' = safeCommit(nodes, n, key, value)
    /\ idx' = idx + 1
    /\ UNCHANGED <<pc, ext, text, node, loc, err, out, argv, fi, log, saved, hp>>

\* writeTree(writeStream, root)
TreeWrite ==
    /\ pc = "build"
    /\ out' = writeTree(nodes, 1)
    /\ pc' = "written"
    /\ UNCHANGED <<ext, text, idx, nodes, node, loc, err, argv, fi, log, saved, hp>>

NextTree == TreeNewNode \/ TreeSetValue \/ TreeAddValue \/ TreeSafeCommit \/ TreeWrite

SpecTree == InitTree /\ [][NextTree]_vars

---------------------------------------------------------------------------
(* parse: the normalizer applied to the root a parser returns.             *)

\* lines 187-203 of parse: the root's fixed tags, then the board size;
\* threw when it throws BadBoardSize
parseSize(ns) ==
    IF MapHas(ns[1].properties, "SZ") THEN ParseInt(MapGet(ns[1].properties, "SZ")[1])
    ELSE Num(19)

\* the calls of lines 187-189 and 196 on the root
parseCalls(ns) ==
    <<[op |-> "setValue", key |-> "FF", value |-> IntToString(Num(4))],
      [op |-> "setValue", key |-> "GM", value |-> IntToString(Num(1))],
      [op |-> "setValue", key |-> "CA", value |-> <<"U", "T", "F", "-", "8">>]>>
    \o (IF MapHas(ns[1].properties, "SZ") THEN <<>>
        ELSE <<[op |-> "setValue", key |-> "SZ", value |-> <<"1", "9">>]>>)

parseNormalize(ns) ==
    [nodes |-> applyCalls(ns, parseCalls(ns)),
     threw |-> Gt(parseSize(ns), 19) \/ Lt(parseSize(ns), 1)]

---------------------------------------------------------------------------
(* The texts of the model and the dispatch on the format tag.              *)

Tags == {".gib", ".ngf", ".ugf", ".ugi"}

\* the non-empty sequences of at most n elements of S
SeqsUpTo(S, n) == UNION {[1..k -> S] : k \in 1..n}

GibTexts(n) == SeqsUpTo(DOMAIN GibLines, n)

\* the texts of at most n lines (n free lines, for .ngf and .ugf) of a format
\* the header lines followed by at most n move lines, or move lines alone
NgfTexts(n) ==
    {h \o m : h \in NgfHeaders, m \in SeqsUpTo(NgfMoves, n) \cup {<<>>}}
        \cup SeqsUpTo(NgfMoves, n)

\* the header lines, or none, followed by at most n records
UgfTexts(n) == {h \o r : h \in UgfHeads, r \in SeqsUpTo(UgfRecords, n)}

Texts(tag, n) ==
    IF tag = ".gib" THEN GibTexts(n)
    ELSE IF tag = ".ngf" THEN NgfTexts(n)
    ELSE UgfTexts(n)

\* loaders[ext]["function"]: the control location that runs the parser
Loader(tag) ==
    IF tag = ".gib" THEN "parseGib"
    ELSE IF tag = ".ngf" THEN "parseNgf"
    ELSE "parseUgf"

---------------------------------------------------------------------------
(* The steps of a conversion.                                              *)

\* one iteration of the for loop of parseGib
GibLine ==
    /\ pc = "parseGib"
    /\ idx < Len(text)
    /\ LET line == Trim(GibLines[text[idx + 1]])
           block == gibBlock(line)
           ini == gibIni(nodes, node, line)
           sto == gibSto(nodes, node, line)
       IN  IF block = "INI" /\ ini.threw
           THEN /\ err' = "ParserFail"
                /\ pc' = "failed"
                /\ UNCHANGED <<nodes, node, idx>>
           ELSE /\ nodes' = IF block = "GAMEBLACKNAME" THEN gibPlayer(nodes, line, "PB", "BR")
                            ELSE IF block = "GAMEWHITENAME"
                            THEN gibPlayer(nodes, line, "PW", "WR")
                            ELSE IF block = "GAMEINFOMAIN" THEN gibInfoMain(nodes, line)
                            ELSE IF block = "GAMETAG" THEN gibTag(nodes, line)
                            ELSE IF block = "INI" THEN ini.nodes
                            ELSE IF block = "STO" THEN sto.nodes
                            ELSE nodes
                /\ node' = IF block = "STO" THEN sto.node ELSE node
                /\ idx' = idx + 1
                /\ UNCHANGED <<pc, err>>
    /\ UNCHANGED <<ext, text, loc, out, argv, fi, log, saved, hp>>

\* parserReturn without the check of root.children.length
parserReturnLenient(ns) == "none"

\* the parser's last statements: a root without children is a failure
parserReturn(ns) == IF Len(ns[1].children) = 0 THEN "ParserFail" ELSE "none"

\* the end of parseGib
GibReturn ==
    /\ pc = "parseGib"
    /\ idx = Len(text)
    /\ err' = parserReturn(nodes)
    /\ pc' = IF err' = "none" THEN "normalize" ELSE "failed"
    /\ UNCHANGED <<ext, text, idx, nodes, node, loc, out, argv, fi, log, saved, hp>>

\* parseNgf up to its main loop
NgfHead ==
    /\ pc = "parseNgf"
    /\ LET h == ngfHead([i \in DOMAIN text |-> NgfLines[text[i]]])
       IN  IF h.threw
           THEN /\ err' = "ParserFail"
                /\ pc' = "failed"
                /\ UNCHANGED nodes
           ELSE /\ nodes' = applyCalls(nodes, h.calls)
                /\ pc' = "parseNgfLoop"
                /\ UNCHANGED err
    /\ UNCHANGED <<ext, text, idx, node, loc, out, argv, fi, log, saved, hp>>

\* one iteration of the main loop of parseNgf
NgfLine ==
    /\ pc = "parseNgfLoop"
    /\ idx < Len(text)
    /\ LET r == ngfMove(nodes, node, NgfLines[text[idx + 1]])
       IN  /\ nodes' = r.nodes
           /\ node' = r.node
    /\ idx' = idx + 1
    /\ UNCHANGED <<pc, ext, text, loc, err, out, argv, fi, log, saved, hp>>

\* the end of parseNgf
NgfReturn ==
    /\ pc = "parseNgfLoop"
    /\ idx = Len(text)
    /\ err' = parserReturn(nodes)
    /\ pc' = IF err' = "none" THEN "normalize" ELSE "failed"
    /\ UNCHANGED <<ext, text, idx, nodes, node, loc, out, argv, fi, log, saved, hp>>

\* one iteration of the for loop of parseUgf
UgfLine ==
    /\ pc = "parseUgf"
    /\ idx < Len(text)
    /\ LET line == Trim(UgfLines[text[idx + 1]])
           try == ugfTry(line)
           r == ugfLine(nodes, node, loc, line)
       IN  IF try.threw
           THEN /\ err' = "ParserFail"
                /\ pc' = "failed"
                /\ UNCHANGED <<nodes, node, loc, idx>>
           ELSE /\ nodes' = IF try.continue THEN nodes ELSE r.nodes
                /\ node' = IF try.continue THEN node ELSE r.node
                /\ loc' = IF try.continue THEN loc ELSE r.loc
                /\ idx' = idx + 1
                /\ UNCHANGED <<pc, err>>
    /\ UNCHANGED <<ext, text, out, argv, fi, log, saved, hp>>

\* the end of parseUgf
UgfReturn ==
    /\ pc = "parseUgf"
    /\ idx = Len(text)
    /\ err' = parserReturn(nodes)
    /\ pc' = IF err' = "none" THEN "normalize" ELSE "failed"
    /\ UNCHANGED <<ext, text, idx, nodes, node, loc, out, argv, fi, log, saved, hp>>

\* parse, after the parser has returned the root
Normalize ==
    /\ pc = "normalize"
    /\ nodes' = parseNormalize(nodes).nodes
    /\ err' = IF parseNormalize(nodes).threw THEN "BadBoardSize" ELSE "none"
    /\ pc' = IF parseNormalize(nodes).threw THEN "failed" ELSE "parsed"
    /\ UNCHANGED <<ext, text, idx, node, loc, out, argv, fi, log, saved, hp>>

\* xyz2sgf, after parse has returned: the tree is written to the stream
Serialize ==
    /\ pc = "parsed"
    /\ fi = 0
    /\ out' = writeTree(nodes, 1)
    /\ pc' = "done"
    /\ UNCHANGED <<ext, text, idx, nodes, node, loc, err, argv, fi, log, saved, hp>>

\* xyz2sgf(str, ext): every format tag, every text within the bounds
Init ==
    /\ ext \in Tags
    /\ text \in Texts(ext, MaxLines)
    /\ pc = Loader(ext)
    /\ idx = 0
    /\ nodes = <<RootNode>>
    /\ node = 1
    /\ loc = NoLocals
    /\ err = "none"
    /\ out = <<>>
    /\ hp = NoCall
    /\ IdleMain

Next ==
    \/ GibLine \/ GibReturn
    \/ NgfHead \/ NgfLine \/ NgfReturn
    \/ UgfLine \/ UgfReturn
    \/ Normalize \/ Serialize

Spec == Init /\ [][Next]_vars

---------------------------------------------------------------------------
(* SpecMain: main, on a list of at most MaxFiles file names.               *)

\* The contents a file of each format holds in SpecMain: for .gib a text
\* with one move, a text with a setup line and a move, an empty text and a
\* text whose setup line follows a move; for .ngf a header with one move
\* and a header alone; for .ugf and .ugi a header with one record and an
\* empty text.
MainTexts(tag) ==
    IF tag = ".gib" THEN {<<10>>, <<7, 11>>, <<>>, <<10, 8>>}
    ELSE IF tag = ".ngf"
    THEN {<<1, 2, 5, 6, 7, 8, 8, 11, 13, 7, 14, 15>>, <<1, 4, 5, 6, 7, 9, 8, 12, 13, 7, 14>>}
    ELSE {<<1, 2, 4, 7, 8>>, <<>>}

\* process.argv holds argv file names after its first two entries
InitMain ==
    /\ argv \in 0..MaxFiles
    /\ fi = 0
    /\ log = <<>>
    /\ saved = {}
    /\ pc = "main"
    /\ nodes = <<RootNode>>
    /\ out = <<>>
    /\ hp = NoCall
    /\ IdleParse

\* lines 769-772: no file name was given
MainUsage ==
    /\ pc = "main"
    /\ argv = 0
    /\ log' = Append(log, [kind |-> "usage", file |-> 0, name |-> <<>>, err |-> "none"])
    /\ pc' = "exit"
    /\ UNCHANGED <<ext, text, idx, nodes, node, loc, err, out, argv, fi, saved, hp>>

\* The for loop of line 774 takes the next file name and calls load, up to
\* the call of the parser (lines 163-185).  readFileSync either returns
\* the contents or throws.
MainLoad ==
    /\ pc = "main"
    /\ fi < argv
    /\ fi' = fi + 1
    /\ \E f \in DOMAIN FileNames, readOk \in BOOLEAN :
          LET filename == FileNames[f]
              key == LoaderKey(getExtension(filename))
          IN  /\ loc' = [NoLocals EXCEPT !.filename = filename]
              /\ IF key = ""
                 THEN /\ log' = Append(log, [kind |-> "unknown", file |-> fi + 1,
                                             name |-> <<>>, err |-> "none"])
                      /\ err' = "UnknownFormat"
                      /\ pc' = "failed"
                      /\ ext' = ""
                      /\ text' = <<>>
                      /\ readOk          \* nothing is read
                 ELSE /\ log' = log
                      /\ ext' = key
                      /\ IF readOk
                         THEN /\ text' \in MainTexts(key)
                              /\ err' = "none"
                              /\ pc' = Loader(key)
                         ELSE /\ text' = <<>>
                              /\ err' = "ReadError"
                              /\ pc' = "failed"
    /\ idx' = 0
    /\ nodes' = <<RootNode>>
    /\ node' = 1
    /\ UNCHANGED <<out, argv, saved, hp>>

\* lines 777-778: load has returned the root
MainSave ==
    /\ pc = "parsed"
    /\ fi > 0
    /\ out' = writeTree(nodes, 1)
    /\ saved' = saved \cup {[file |-> fi, name |-> baseName(loc.filename) \o <<".", "s", "g", "f">>]}
    /\ pc' = "main"
    /\ UNCHANGED <<ext, text, idx, nodes, node, loc, err, argv, fi, log, hp>>

\* MainCatch, had it let the exception out of main
MainCatchRethrow ==
    /\ pc = "failed"
    /\ fi > 0
    /\ log' = Append(log, [kind |-> "failed", file |-> fi, name |-> loc.filename, err |-> err])
    /\ pc' = "exit"
    /\ UNCHANGED <<ext, text, idx, nodes, node, loc, err, out, argv, fi, saved, hp>>

\* lines 779-782: load has thrown
MainCatch ==
    /\ pc = "failed"
    /\ fi > 0
    /\ log' = Append(log, [kind |-> "failed", file |-> fi, name |-> loc.filename, err |-> err])
    /\ pc' = "main"
    /\ UNCHANGED <<ext, text, idx, nodes, node, loc, err, out, argv, fi, saved, hp>>

\* the for loop of line 774 has no file name left
MainExit ==
    /\ pc = "main"
    /\ argv > 0
    /\ fi = argv
    /\ pc' = "exit"
    /\ UNCHANGED <<ext, text, idx, nodes, node, loc, err, out, argv, fi, log, saved, hp>>

NextMain ==
    \/ MainUsage \/ MainLoad \/ MainSave \/ MainCatch \/ MainExit
    \/ GibLine \/ GibReturn
    \/ NgfHead \/ NgfLine \/ NgfReturn
    \/ UgfLine \/ UgfReturn
    \/ Normalize

\* the steps of main itself, outside the conversion of a file
MainStep == MainUsage \/ MainLoad \/ MainSave \/ MainCatch \/ MainExit

\* main has not ended; a step of NextMain is possible exactly then
Running == pc # "exit"

\* main is a sequential program that waits for nothing: it takes its next
\* step whenever one is possible, which is WF_vars(NextMain).  MainProgress
\* is that condition with ENABLED <<NextMain>>_vars written as Running,
\* which spares TLC the evaluation of ENABLED on the parsers' steps.
MainProgress == []<>(~Running) \/ []<><<NextMain>>_vars

SpecMain == InitMain /\ [][NextMain]_vars /\ WF_vars(MainStep) /\ MainProgress

---------------------------------------------------------------------------
(* Claims about writeTree and handicapPoints.                              *)

CountKind(chunks, kind) == Cardinality({i \in DOMAIN chunks : chunks[i].kind = kind})

\* the nodes in pre-order, children in child order
RECURSIVE PreOrder(_, _)
PreOrder(ns, n) ==
    <<n>> \o Flatten([j \in DOMAIN ns[n].children |-> PreOrder(ns, ns[n].children[j])])

\* the node statement of a node: its keys, each followed by its values
Statement(nd) ==
    Flatten([i \in DOMAIN nd.properties |->
                <<[kind |-> "key", s |-> nd.properties[i].key]>>
                    \o [j \in DOMAIN nd.properties[i].values |->
                            [kind |-> "value", s |-> nd.properties[i].values[j]]]])

Branching(ns) == {n \in DOMAIN ns : Len(ns[n].children) >= 2}

RECURSIVE Ancestors(_, _)
Ancestors(ns, n) ==
    IF ns[n].parent = 0 THEN {} ELSE {ns[n].parent} \cup Ancestors(ns, ns[n].parent)

RECURSIVE SumChildren(_, _)
SumChildren(ns, S) ==
    IF S = {} THEN 0
    ELSE LET n == CHOOSE m \in S : TRUE
         IN  Len(ns[n].children) + SumChildren(ns, S \ {n})

\* the position in chunks of the i-th ";"
SemiPos(chunks, i) ==
    CHOOSE p \in DOMAIN chunks :
        /\ chunks[p].kind = "semi"
        /\ Cardinality({q \in 1..p : chunks[q].kind = "semi"}) = i

\* groups open at position p: "(" written minus ")" written up to p
DepthAt(chunks, p) ==
    Cardinality({q \in 1..p : chunks[q].kind = "open"})
        - Cardinality({q \in 1..p : chunks[q].kind = "close"})

IsChain(ns) == \A n \in DOMAIN ns : Len(ns[n].children) <= 1

\* C5: the output of writeTree begins with "(" and ends with ")\n"; it
\* holds one node statement per node, in pre-order, each ";" followed by
\* the node's keys and bracketed values in insertion order; a chain is
\* written in one group with no nested group; an only child follows its
\* parent in the same group; each of the k >= 2 children of a node opens a
\* group of its own, nested one level below its parent's, and every group
\* opened is closed.
C5_WriteTreeGroups ==
    pc = "written" =>
        LET order == PreOrder(nodes, 1)
        IN  /\ out[1] = Open
            /\ out[Len(out)] = Close
            /\ CountKind(out, "semi") = Len(nodes)
            /\ CountKind(out, "open") = 1 + SumChildren(nodes, Branching(nodes))
            /\ CountKind(out, "close") = CountKind(out, "open")
            /\ \A p \in 1..(Len(out) - 1) : DepthAt(out, p) >= 1
            /\ IsChain(nodes) =>
                  out = <<Open>>
                          \o Flatten([i \in DOMAIN order |->
                                        <<Semi>> \o Statement(nodes[order[i]])])
                          \o <<Close>>
            /\ \A i \in DOMAIN order :
                  LET n == order[i]
                      p == SemiPos(out, i)
                      st == Statement(nodes[n])
                      after == p + Len(st) + 1
                  IN  /\ SubSeq(out, p + 1, p + Len(st)) = st
                      /\ DepthAt(out, p) =
                            1 + Cardinality(Ancestors(nodes, n) \cap Branching(nodes))
                      /\ out[after].kind =
                            (IF Len(nodes[n].children) >= 2 THEN "open"
                             ELSE IF Len(nodes[n].children) = 1 THEN "semi"
                             ELSE "close")
                      /\ n # 1 =>
                            (out[p - 1].kind = "open")
                                <=> (Len(nodes[nodes[n].parent].children) >= 2)

\* a tree that branches below a chain link and holds a two-valued property
\* has been written
C5_Witness ==
    /\ pc = "written"
    /\ \E n \in DOMAIN nodes : Len(nodes[n].children) = 2
    /\ \E n \in DOMAIN nodes : Len(nodes[n].children) = 1
    /\ \E n \in DOMAIN nodes : \E i \in DOMAIN nodes[n].properties :
          Len(nodes[n].properties[i].values) = 2

\* the number of points documented for a handicap count
DocumentedCount(boardsize, handicap) ==
    IF handicap < 2 THEN 0
    ELSE IF boardsize % 2 = 0 /\ handicap > 4 THEN 4
    ELSE handicap

\* C6: for board sizes 4..25 and handicap counts 0..9, in both layouts,
\* handicapPoints returns pairwise distinct points, as many as documented
\* for the handicap count, each with both coordinates in 1..boardsize.
C6_HandicapPointsDistinct ==
    (pc = "hp_done" /\ hp.boardsize \in 4..25 /\ hp.handicap \in 0..9) =>
        /\ \A i, j \in DOMAIN hp.points : i # j => hp.points[i] # hp.points[j]
        /\ Len(hp.points) = DocumentedCount(hp.boardsize, hp.handicap)
        /\ \A i \in DOMAIN hp.points :
              /\ hp.points[i][1] \in 1..hp.boardsize
              /\ hp.points[i][2] \in 1..hp.boardsize

---------------------------------------------------------------------------
(* Claims about the parsers and parse.                                     *)

RootHas(key) == MapHas(nodes[1].properties, key)

\* the values of a key of the root; none when the root has no such key
RootValues(key) == IF RootHas(key) THEN MapGet(nodes[1].properties, key) ELSE <<>>

\* a parser is running
Parsing == pc \in {"parseGib", "parseNgf", "parseNgfLoop", "parseUgf"}

\* parse has returned the root
Returned == pc \in {"parsed", "done"}

IsDecimal(s) == s # <<>> /\ \A i \in DOMAIN s : IsDigit(s[i])

\* C1: when parse returns a root, the root has one SZ value, which denotes
\* an integer in 1..19; a final board size outside 1..19 makes parse fail
\* with BadBoardSize instead.
C1_BoardSizeInRange ==
    Returned =>
        /\ Len(RootValues("SZ")) = 1
        /\ IsDecimal(RootValues("SZ")[1])
        /\ DigitsVal(RootValues("SZ")[1]) \in 1..19

\* the lines of each vocabulary that are well-formed move records
GibMoves == {10, 11}

NgfMoveRecords == {15, 16}

UgfMoveRecords == {8, 9, 10}

MoveRecords(tag) ==
    IF tag = ".gib" THEN GibMoves
    ELSE IF tag = ".ngf" THEN NgfMoveRecords
    ELSE UgfMoveRecords

HasMoveRecord == \E i \in DOMAIN text : text[i] \in MoveRecords(ext)

\* C2: on a text without a recognizable move record, each parser fails with
\* ParserFail and returns no tree, whatever metadata the root holds.
C2_NoMoveRecordFails ==
    (ext \in Tags /\ ~Parsing /\ ~HasMoveRecord) => (pc = "failed" /\ err = "ParserFail")

\* each parser has failed on a text without a move record after it had
\* set properties of the root
C2_Witness ==
    /\ pc = "failed"
    /\ err = "ParserFail"
    /\ ~HasMoveRecord
    /\ nodes[1].properties # <<>>
    /\ ext \in {".gib", ".ngf"}

\* C3: parseNgf on a text with the header lines and at least one move: a
\* handicap line that parses to 0 and a komi line that parses to a whole
\* number K give KM = K + 0.5; a handicap line that parses to 2..9 gives
\* KM = the komi read.
C3_NgfKomi ==
    (ext = ".ngf" /\ pc \in {"normalize", "parsed", "done"} /\ Len(text) >= 11) =>
        LET h == ParseInt(NgfLines[text[6]])
            k == ParseFloat(NgfLines[text[8]])
        IN  /\ (h = Num(0) /\ IsNum(k) /\ k.v % 10 = 0) =>
                  RootValues("KM") = <<TenthsToString(Num(k.v + 5))>>
            /\ (IsNum(h) /\ h.v \in 2..9 /\ IsNum(k)) =>
                  RootValues("KM") = <<TenthsToString(k)>>

\* a two-stone handicap game with one move in each dialect
GibFixture == <<7, 10>>

NgfFixture == <<1, 2, 5, 6, 7, 9, 8, 11, 13, 7, 14, 15>>

UgfFixture == <<1, 2, 4, 7, 8, 9, 10>>

Fixture(tag) ==
    IF tag = ".gib" THEN GibFixture
    ELSE IF tag = ".ngf" THEN NgfFixture
    ELSE UgfFixture

\* C4: the conversion of the two-stone fixture of each dialect succeeds,
\* and its root carries SZ = 19 (the board size of the fixture), HA = 2 and
\* two AB stones, followed by exactly one move node.
C4_TwoStoneFixtures ==
    (ext \in Tags /\ text = Fixture(ext) /\ pc \in {"done", "failed"}) =>
        /\ pc = "done"
        /\ RootValues("SZ") = << <<"1", "9">> >>
        /\ RootValues("HA") = << <<"2">> >>
        /\ Len(RootValues("AB")) = 2
        /\ Len(nodes) = 2
        /\ nodes[1].children = <<2>>
        /\ nodes[2].children = <<>>

\* the headers of the .ugf vocabulary with a board size in 1..19 and a
\* handicap h >= 0
UgfValidHeads == {<<1, 2, 4, 7>>, <<1, 3, 4, 6, 7>>}

\* the handicap the header h gives
UgfHandicap(h) == IF h[2] = 2 THEN 2 ELSE 0

\* What C8 says of the records after a valid header, read in order: count
\* is the number of handicap records taken so far, stones the records
\* taken, moves the number of move nodes.
RECURSIVE UgfExpected(_, _, _, _, _)
UgfExpected(records, h, count, stones, moves) ==
    IF records = <<>> THEN [stones |-> stones, moves |-> moves]
    ELSE IF Head(records) \in {8, 9} /\ count < h /\ moves = 0
    THEN UgfExpected(Tail(records), h, count + 1, stones \cup {Head(records)}, moves)
    ELSE IF Head(records) \in UgfMoveRecords
    THEN UgfExpected(Tail(records), h, count, stones, moves + 1)
    ELSE UgfExpected(Tail(records), h, count, stones, moves)

\* C8: parseUgf on a valid header followed by data records: the first h
\* Black records marked 0 before any move node become values of the root's
\* AB and create no node; every other well-formed record creates one node,
\* the child of the node before it.
C8_UgfHandicapRecords ==
    \A h \in UgfValidHeads :
        (/\ ext \in {".ugf", ".ugi"}
         /\ ~Parsing
         /\ Len(text) >= Len(h)
         /\ SubSeq(text, 1, Len(h)) = h) =>
            LET e == UgfExpected(SubSeq(text, Len(h) + 1, Len(text)), UgfHandicap(h), 0, {}, 0)
            IN  /\ e.moves > 0 => pc # "failed"
                /\ Len(nodes) = 1 + e.moves
                /\ \A n \in 2..Len(nodes) : nodes[n].parent = n - 1
                /\ Len(RootValues("AB")) = Cardinality(e.stones)

\* the root fields parseGib sets from bracketed tokens
GibFields == {"PB", "BR", "PW", "WR", "RE", "KM", "DT"}

\* C9: in parseGib, once a line has set one of the fields PB, BR, PW, WR,
\* RE, KM, DT of the root, no later line changes its value.
C9_FirstAssignmentWins ==
    [][\A f \in GibFields :
          (pc = "parseGib" /\ MapHas(nodes[1].properties, f)) =>
              /\ MapHas(nodes'[1].properties, f)
              /\ MapGet(nodes'[1].properties, f) = MapGet(nodes[1].properties, f)]_vars

\* the initial-setup lines of the .gib vocabulary
GibSetupLines == {7, 8, 9}

\* an initial-setup line follows a move record
SetupAfterMove ==
    \E i, j \in DOMAIN text : i < j /\ text[i] \in GibMoves /\ text[j] \in GibSetupLines

\* C10: parseGib fails with ParserFail, and returns no tree, on every text
\* in which an INI line follows a STO line that created a move node; a
\* step of the parser changes HA or AB only while the current node is the
\* root.
C10_SetupOnlyAtRoot ==
    /\ []((ext = ".gib" /\ SetupAfterMove /\ ~Parsing) => (pc = "failed" /\ err = "ParserFail"))
    /\ [][(pc = "parseGib" /\ (\E f \in {"HA", "AB"} :
              MapHas(nodes'[1].properties, f) /\ ~MapHas(nodes[1].properties, f)))
            => node = 1]_vars

\* the parser has failed at an INI line that follows a move
C10_Witness ==
    /\ ext = ".gib"
    /\ pc = "failed"
    /\ err = "ParserFail"
    /\ idx < Len(text)
    /\ idx > 0
    /\ text[idx + 1] \in {7, 8}
    /\ \E i \in 1..idx : text[i] \in GibMoves
    /\ Len(nodes) > 1

---------------------------------------------------------------------------
(* Claims about the values of the returned tree.                           *)

\* s is escaped: read from the left, every backslash is followed by the
\* backslash or closing bracket it escapes, and no closing bracket stands
\* without a backslash before it
RECURSIVE IsEscaped(_)
IsEscaped(s) ==
    IF s = <<>> THEN TRUE
    ELSE IF s[1] = "\\"
    THEN Len(s) >= 2 /\ s[2] \in {"\\", "]"} /\ IsEscaped(SubSeq(s, 3, Len(s)))
    ELSE s[1] # "]" /\ IsEscaped(Tail(s))

\* s with one level of escaping removed
RECURSIVE Unescape(_)
Unescape(s) ==
    IF s = <<>> THEN <<>>
    ELSE IF s[1] = "\\" /\ Len(s) >= 2 THEN <<s[2]>> \o Unescape(SubSeq(s, 3, Len(s)))
    ELSE <<s[1]>> \o Unescape(Tail(s))

\* the vocabulary the text of a format is made of
TextLines(tag) ==
    IF tag = ".gib" THEN GibLines
    ELSE IF tag = ".ngf" THEN NgfLines
    ELSE UgfLines

\* the keys whose values are taken from the text (player names and ranks,
\* place, title)
TextKeys == {"PB", "BR", "PW", "WR", "PC", "GN"}

\* C11: in the tree parse returns, every value of every node is escaped;
\* a value taken from the text is escaped exactly once (removing one level
\* of escaping gives a piece of a line of the text), every other value
\* holds no backslash and no closing bracket; and no value writeTree
\* writes holds an unescaped "]".
C11_ValuesEscaped ==
    Returned =>
        /\ \A n \in DOMAIN nodes : \A i \in DOMAIN nodes[n].properties :
              \A j \in DOMAIN nodes[n].properties[i].values :
                 LET v == nodes[n].properties[i].values[j]
                 IN  /\ IsEscaped(v)
                     /\ nodes[n].properties[i].key \in TextKeys =>
                           \E l \in DOMAIN text :
                              Includes(TextLines(ext)[text[l]], Unescape(v))
                     /\ nodes[n].properties[i].key \notin TextKeys =>
                           \A c \in DOMAIN v : v[c] \notin {"]", "\\"}
        /\ pc = "done" =>
              \A c \in DOMAIN out : out[c].kind = "value" => IsEscaped(out[c].s)

\* a tree whose root holds a name with an escaped bracket and an escaped
\* backslash has been written
C11_Witness ==
    /\ pc = "done"
    /\ \E i \in DOMAIN nodes[1].properties :
          /\ nodes[1].properties[i].key \in TextKeys
          /\ Includes(nodes[1].properties[i].values[1], <<"\\", "]", "\\", "\\">>)
    /\ \E c \in DOMAIN out :
          out[c].kind = "value" /\ Includes(out[c].s, <<"\\", "]", "\\", "\\">>)

\* the values of a sequence are pairwise distinct
Distinct(vs) == \A i, j \in DOMAIN vs : i # j => vs[i] # vs[j]

\* a parser has returned a tree
TreeReturned == pc \in {"normalize", "parsed", "done"}

\* C12: in the tree a parser returns, the root has HA only together with
\* AB and AB only together with HA, and then the values of AB are pairwise
\* distinct and as many as HA says, whatever setup lines the text holds.
C12_HandicapMatchesStones ==
    TreeReturned =>
        /\ RootHas("HA") <=> RootHas("AB")
        /\ RootHas("HA") =>
              /\ Distinct(RootValues("AB"))
              /\ Len(RootValues("AB")) = DigitsVal(RootValues("HA")[1])

---------------------------------------------------------------------------
(* Claims about main.                                                      *)

\* file k of the list was saved
Saved(k) == \E s \in saved : s.file = k

\* the failure of file k was reported
Reported(k) == \E i \in DOMAIN log : log[i].kind = "failed" /\ log[i].file = k

\* file k was attempted: either saved or reported as failed, never both
Attempted(k) == Saved(k) # Reported(k)

\* C7: main attempts every file of its list, in order: when it starts on a
\* file or ends, every file before has been saved or, if its conversion
\* failed, reported and not saved; the failures are reported in the order
\* of the list; and main reaches its end.
C7_EveryFileAttempted ==
    /\ [](\A k \in 1..argv :
            (k < fi \/ (k = fi /\ pc = "main") \/ pc = "exit") => Attempted(k))
    /\ [](\A k \in 1..argv : k > fi => ~Saved(k) /\ ~Reported(k))
    /\ [](\A i, j \in DOMAIN log :
            (i < j /\ log[i].kind = "failed" /\ log[j].kind = "failed")
                => log[i].file < log[j].file)
    /\ <>(pc = "exit")

\* main has ended after a failed first file and a saved second file
C7_Witness ==
    /\ pc = "exit"
    /\ argv >= 2
    /\ Reported(1)
    /\ Saved(2)

=============================================================================
